---- MODULE Spec2Model ----
(***************************************************************************)
(* A model of cpptimer's CppTimer (src/cpptimer.h): the tracker `tics`,    *)
(* the two log vectors `tags` and `durations`, the Statistic table `data`, *)
(* and the operations tic, toc, aggregate, reset and ScopedTimer.          *)
(*                                                                         *)
(* The code is read in two ways.  In SeqSpec and ScopeSpec every call runs *)
(* to completion before the next one starts (SeqSpec: tic, toc, aggregate, *)
(* reset; ScopeSpec: ScopedTimer objects and aggregate).  In Spec and      *)
(* JobSpec the calls of the contexts run statement by statement, with the  *)
(* unnamed `omp critical` sections as one global lock, so that calls       *)
(* overlap exactly where the code allows it (Spec: any calls; IsoSpec: tic *)
(* and toc only; JobSpec: every context calls tic and toc once, then one   *)
(* aggregate runs).                                                        *)
(*                                                                         *)
(* double values are modelled as exact rationals <<num, den>>; rounding is *)
(* not modelled.  The clock is read as a tick count that never decreases.  *)
(* An unsynchronised access that races with a write is given every outcome *)
(* the race can have (FindResults, StartRead, Padded); the loop of         *)
(* aggregate over tics reads the map in one step.                          *)
(***************************************************************************)
EXTENDS Integers, Sequences, FiniteSets, TLC

\* ------------------------------------------------------------------ bounds
Tags == {"a", "b"}              \* the tag strings the callers use
TagOrder == <<"a", "b">>        \* Tags in std::string operator< order
Contexts == {0, 1}              \* values of omp_get_thread_num()
SeqContexts == {0}              \* the context SeqSpec and ScopeSpec call from
MaxTime == 2                    \* last clock reading (clock ticks)
MaxSamples == 2                 \* samples logged between two resets
MaxWarnings == 2                \* messages handed to warn() in one run
MaxDepth == 2                   \* live ScopedTimer objects per context
MaxCalls == 3                   \* calls one context starts in one run of Spec
TicksPerMicro == 2              \* ticks of hr_clock in one microsecond (platform-defined)

None == -1                      \* no context: the critical section is free
Keys == Tags \X Contexts
KeyOrder == <<<<"a", 0>>, <<"a", 1>>, <<"b", 0>>, <<"b", 1>>>>  \* std::pair operator< order

VARIABLES
    tics,        \* std::map<keypair, time_point>: a function on a subset of Keys
    tags,        \* std::vector<std::string>
    durations,   \* std::vector<unsigned long long>
    data,        \* std::map<std::string, tuple<double, double, unsigned long>>
    verbose,     \* bool verbose
    now,         \* the latest reading of hr_clock
    warnings,    \* the messages handed to warn(), in order
    scopes,      \* per context, the tags of its live ScopedTimer objects, innermost last
    pc,          \* per context, the statement its call is at ("idle": in no call)
    arg,         \* per context, key.first of its call
    address,     \* per context, toc's pointer: "null" or "node" (into the key's map node)
    lock,        \* the owner of the unnamed omp critical section, None when free
    uniq,        \* per context, aggregate's unique_tags
    idx,         \* per context, aggregate's loop index i (from 1)
    last,        \* history: the call that completed last (SeqSpec, ScopeSpec)
    hist,        \* history: the (tag, duration) samples toc has pushed since the last reset
    folds,       \* history: per tag, the aggregate() calls since the last reset that folded it
    seen,        \* history: per context, the start time its toc found at lookup
    ncalls,      \* history: per context, the calls it has started in Spec
    wasReset,    \* history: a reset() has been started in Spec
    quiet        \* history: "yes" when the call completed last in Spec is an aggregate()
                 \* during which no other call was in progress, "running" during
                 \* such a call, "no" otherwise

\* the variables only the statement-by-statement reading uses
cvars == <<pc, arg, address, lock, uniq, idx, seen, ncalls, wasReset, quiet>>

vars == <<tics, tags, durations, data, verbose, now, warnings, scopes,
          pc, arg, address, lock, uniq, idx,
          last, hist, folds, seen, ncalls, wasReset, quiet>>

\* ------------------------------------------------------- rational numbers
Abs(x) == IF x < 0 THEN -x ELSE x

RECURSIVE GCD(_, _)
GCD(m, n) == IF n = 0 THEN m ELSE GCD(n, m % n)

\* the fraction n/d (d > 0) in lowest terms
Frac(n, d) == LET g == GCD(Abs(n), d) IN <<n \div g, d \div g>>

RInt(k) == <<k, 1>>
RAdd(p, q) == Frac(p[1] * q[2] + q[1] * p[2], p[2] * q[2])
RSub(p, q) == Frac(p[1] * q[2] - q[1] * p[2], p[2] * q[2])
RMul(p, q) == Frac(p[1] * q[1], p[2] * q[2])
RDivInt(p, k) == Frac(p[1], p[2] * k)

\* ------------------------------------------------------------ pure helpers
Range(s) == {s[i] : i \in DOMAIN s}

\* m with key k removed
MapErase(m, k) == [x \in (DOMAIN m) \ {k} |-> m[x]]

\* m with k bound to v (operator[] followed by assignment)
MapPut(m, k, v) == [x \in (DOMAIN m) \cup {k} |-> IF x = k THEN v ELSE m[x]]

\* a bug of tic: an existing start is kept (insert instead of assignment)
TicStoreKeepsFirst(m, k, t) == IF k \in DOMAIN m THEN m ELSE MapPut(m, k, t)

\* tics[key] = hr_clock::now()
TicStore(m, k, t) == MapPut(m, k, t)

EmptyMap == [x \in {} |-> 0]

\* a bug of toc: the difference is taken the wrong way round
ElapsedReversed(start, t) == (start - t) \div TicksPerMicro

\* duration_cast<microseconds>(t - start).count(), stored as unsigned long long
Elapsed(start, t) == (t - start) \div TicksPerMicro

NotStartedMsg(tag) == <<"not started", tag>>
NotStoppedMsg(tag) == <<"not stopped", tag>>

RECURSIVE NotStoppedFrom(_, _)
NotStoppedFrom(m, i) ==
    IF i > Len(KeyOrder) THEN <<>>
    ELSE (IF KeyOrder[i] \in DOMAIN m THEN <<NotStoppedMsg(KeyOrder[i][1])>> ELSE <<>>)
         \o NotStoppedFrom(m, i + 1)

\* the warnings of aggregate()'s loop over tics, in map order
NotStoppedMsgs(m) == NotStoppedFrom(m, 1)

\* a bug of aggregate: every known tag is folded, not only those of the log
UniqueTagsAll(tgs) == TagOrder

\* std::sort followed by std::unique on a copy of tags
UniqueTags(tgs) == SelectSeq(TagOrder, LAMBDA t : t \in Range(tgs))

ZeroStat == <<RInt(0), RInt(0), 0>>

\* a bug of aggregate: the fold starts from zero although the tag has an entry
InitStatZero(d, tag) == ZeroStat

\* the (mean, M2, count) a tag's fold starts from
InitStat(d, tag) == IF tag \notin DOMAIN d THEN ZeroStat ELSE d[tag]

\* a bug of aggregate: M2 grows by delta * delta, the mean's move ignored
WelfordSquaresDelta(stat, x) ==
    LET count == stat[3] + 1
        delta == RSub(RInt(x), stat[1])
        mean  == RAdd(stat[1], RDivInt(delta, count))
        M2    == RAdd(stat[2], RMul(delta, delta))
    IN  <<mean, M2, count>>

\* one step of Welford's online algorithm
Welford(stat, x) ==
    LET count == stat[3] + 1
        delta == RSub(RInt(x), stat[1])
        mean  == RAdd(stat[1], RDivInt(delta, count))
        M2    == RAdd(stat[2], RMul(delta, RSub(RInt(x), mean)))
    IN  <<mean, M2, count>>

\* the inner loop over j, from index j on
RECURSIVE FoldFrom(_, _, _, _, _)
FoldFrom(stat, tag, tgs, durs, j) ==
    IF j > Len(tgs) THEN stat
    ELSE FoldFrom(IF tgs[j] = tag THEN Welford(stat, durs[j]) ELSE stat,
                  tag, tgs, durs, j + 1)

\* a bug of aggregate: the inner loop skips the first log entry
FoldTagSkipsFirst(d, tag, tgs, durs) == FoldFrom(InitStat(d, tag), tag, tgs, durs, 2)

FoldTag(d, tag, tgs, durs) == FoldFrom(InitStat(d, tag), tag, tgs, durs, 1)

\* the outer loop over unique_tags, from index i on
RECURSIVE AggregateFrom(_, _, _, _, _)
AggregateFrom(d, utags, tgs, durs, i) ==
    IF i > Len(utags) THEN d
    ELSE AggregateFrom(MapPut(d, utags[i], FoldTag(d, utags[i], tgs, durs)),
                       utags, tgs, durs, i + 1)

AggregateData(d, tgs, durs) == AggregateFrom(d, UniqueTags(tgs), tgs, durs, 1)

\* ---------------------------------------------------------------- history
\* What `last` records of the call that completed last:
\*   op, ctx, tag  the call; an aggregate() that directly follows a found toc keeps
\*                 that toc's tag
\*   found         toc: whether the key was in the tracker
\*   run           the longest of the patterns below that the latest calls end with
\*                 (T a tic, K a toc, both on the key of this call, A aggregate,
\*                 R reset): T, TT, TK, TTK, TTKK, TKA (the K found its key), R, RA
\*   batch         aggregate, reset: the tags vector the call started with
\*   full          reset: tracker, log and table were all nonempty when it started;
\*                 an aggregate directly after a reset: that reset's value
NoCall == [op |-> "none", ctx |-> 0, tag |-> "", found |-> FALSE, run |-> "",
           batch |-> <<>>, full |-> FALSE]

SameKey(c, tag) == last.ctx = c /\ last.tag = tag

TicRun(c, tag) == IF SameKey(c, tag) /\ last.run \in {"T", "TT"} THEN "TT" ELSE "T"

TocRun(c, tag) == IF ~SameKey(c, tag) THEN ""
                  ELSE CASE last.run = "T"   -> "TK"
                         [] last.run = "TT"  -> "TTK"
                         [] last.run = "TTK" -> "TTKK"
                         [] OTHER            -> ""

TicCallRec(c, tag) ==
    [op |-> "tic", ctx |-> c, tag |-> tag, found |-> TRUE, run |-> TicRun(c, tag),
     batch |-> <<>>, full |-> FALSE]

TocCallRec(c, tag, f) ==
    [op |-> "toc", ctx |-> c, tag |-> tag, found |-> f, run |-> TocRun(c, tag),
     batch |-> <<>>, full |-> FALSE]

AfterFoundToc == last.op = "toc" /\ last.found /\ last.run \in {"TK", "TTK"}

AggCallRec(c) ==
    [op |-> "aggregate", ctx |-> c,
     tag |-> IF AfterFoundToc THEN last.tag ELSE "",
     found |-> TRUE,
     run |-> IF AfterFoundToc THEN "TKA" ELSE IF last.op = "reset" THEN "RA" ELSE "",
     batch |-> tags,
     full |-> IF last.op = "reset" THEN last.full ELSE FALSE]

ResetCallRec(c) ==
    [op |-> "reset", ctx |-> c, tag |-> "", found |-> TRUE, run |-> "R",
     batch |-> tags,
     full |-> tics # EmptyMap /\ tags # <<>> /\ data # EmptyMap]

\* ------------------------------------------------------------------- Init
Init ==
    /\ tics = EmptyMap
    /\ tags = <<>>
    /\ durations = <<>>
    /\ data = EmptyMap
    /\ verbose \in BOOLEAN
    /\ now = 0
    /\ warnings = <<>>
    /\ scopes = [c \in Contexts |-> <<>>]
    /\ pc = [c \in Contexts |-> "idle"]
    /\ arg = [c \in Contexts |-> ""]
    /\ address = [c \in Contexts |-> "null"]
    /\ lock = None
    /\ uniq = [c \in Contexts |-> <<>>]
    /\ idx = [c \in Contexts |-> 1]
    /\ last = NoCall
    /\ hist = <<>>
    /\ folds = [t \in Tags |-> 0]
    /\ seen = [c \in Contexts |-> 0]
    /\ ncalls = [c \in Contexts |-> 0]
    /\ wasReset = FALSE
    /\ quiet = "no"

\* --------------------------------------------- the calls, run to completion
\* tic(tag) by context c, reading the clock as t
TicBody(c, tag, t) ==
    /\ now' = t
    /\ tics' = TicStore(tics, <<tag, c>>, t)
    /\ UNCHANGED <<tags, durations, data, verbose, warnings, hist, folds>>
    /\ last' = TicCallRec(c, tag)

\* a bug of toc: a toc without a start logs a sample of length 0
TocMissLogsZero(c, tag) ==
    /\ verbose => Len(warnings) < MaxWarnings
    /\ Len(hist) < MaxSamples
    /\ warnings' = IF verbose THEN Append(warnings, NotStartedMsg(tag)) ELSE warnings
    /\ durations' = Append(durations, 0)
    /\ tags' = Append(tags, tag)
    /\ hist' = Append(hist, <<tag, 0>>)
    /\ UNCHANGED <<tics, data, verbose, now, folds>>
    /\ last' = TocCallRec(c, tag, FALSE)

\* a bug of toc: the not-started message is emitted whatever verbose is
TocMissAlwaysWarns(c, tag) ==
    /\ Len(warnings) < MaxWarnings
    /\ warnings' = Append(warnings, NotStartedMsg(tag))
    /\ UNCHANGED <<tics, tags, durations, data, verbose, now, hist, folds>>
    /\ last' = TocCallRec(c, tag, FALSE)

\* toc(tag) by context c when the key is not in the tracker
TocMiss(c, tag) ==
    /\ verbose => Len(warnings) < MaxWarnings
    /\ warnings' = IF verbose THEN Append(warnings, NotStartedMsg(tag)) ELSE warnings
    /\ UNCHANGED <<tics, tags, durations, data, verbose, now, hist, folds>>
    /\ last' = TocCallRec(c, tag, FALSE)

\* toc(tag) by context c when the key is in the tracker, reading the clock as t
TocHit(c, tag, t) ==
    LET key == <<tag, c>> IN
    /\ Len(hist) < MaxSamples
    /\ now' = t
    /\ durations' = Append(durations, Elapsed(tics[key], t))
    /\ tics' = MapErase(tics, key)
    /\ tags' = Append(tags, tag)
    /\ hist' = Append(hist, <<tag, Elapsed(tics[key], t)>>)
    /\ UNCHANGED <<data, verbose, warnings, folds>>
    /\ last' = TocCallRec(c, tag, TRUE)

TocBody(c, tag, t) ==
    IF <<tag, c>> \notin DOMAIN tics THEN TocMiss(c, tag) ELSE TocHit(c, tag, t)

Tic(c, tag) ==
    /\ \E t \in now..MaxTime : TicBody(c, tag, t)
    /\ UNCHANGED <<scopes, cvars>>

Toc(c, tag) ==
    /\ \E t \in now..MaxTime : TocBody(c, tag, t)
    /\ UNCHANGED <<scopes, cvars>>

\* a bug of aggregate: the tracker is cleared together with the log
AggregateClearsTracker(c) ==
    /\ verbose => Len(warnings) + Cardinality(DOMAIN tics) <= MaxWarnings
    /\ warnings' = IF verbose THEN warnings \o NotStoppedMsgs(tics) ELSE warnings
    /\ data' = AggregateData(data, tags, durations)
    /\ tics' = EmptyMap
    /\ tags' = <<>>
    /\ durations' = <<>>
    /\ folds' = [t \in Tags |-> IF t \in Range(tags) THEN folds[t] + 1 ELSE folds[t]]
    /\ UNCHANGED <<verbose, now, scopes, hist, cvars>>
    /\ last' = AggCallRec(c)

Aggregate(c) ==
    /\ verbose => Len(warnings) + Cardinality(DOMAIN tics) <= MaxWarnings
    /\ warnings' = IF verbose THEN warnings \o NotStoppedMsgs(tics) ELSE warnings
    /\ data' = AggregateData(data, tags, durations)
    /\ tags' = <<>>
    /\ durations' = <<>>
    /\ folds' = [t \in Tags |-> IF t \in Range(tags) THEN folds[t] + 1 ELSE folds[t]]
    /\ UNCHANGED <<tics, verbose, now, scopes, hist, cvars>>
    /\ last' = AggCallRec(c)

\* a bug of reset: the tracker is not cleared
ResetKeepsTracker(c) ==
    /\ durations' = <<>>
    /\ tags' = <<>>
    /\ data' = EmptyMap
    /\ hist' = <<>>
    /\ folds' = [t \in Tags |-> 0]
    /\ UNCHANGED <<tics, verbose, now, warnings, scopes, cvars>>
    /\ last' = ResetCallRec(c)

\* a bug of reset: the Statistic table is not cleared
ResetKeepsData(c) ==
    /\ tics' = EmptyMap
    /\ durations' = <<>>
    /\ tags' = <<>>
    /\ hist' = <<>>
    /\ folds' = [t \in Tags |-> 0]
    /\ UNCHANGED <<data, verbose, now, warnings, scopes, cvars>>
    /\ last' = ResetCallRec(c)

Reset(c) ==
    /\ tics' = EmptyMap
    /\ durations' = <<>>
    /\ tags' = <<>>
    /\ data' = EmptyMap
    /\ hist' = <<>>
    /\ folds' = [t \in Tags |-> 0]
    /\ UNCHANGED <<verbose, now, warnings, scopes, cvars>>
    /\ last' = ResetCallRec(c)

SeqNext ==
    \/ \E c \in SeqContexts, tag \in Tags : Tic(c, tag)
    \/ \E c \in SeqContexts, tag \in Tags : Toc(c, tag)
    \/ \E c \in SeqContexts : Aggregate(c)
    \/ \E c \in SeqContexts : Reset(c)

SeqSpec == Init /\ [][SeqNext]_vars

\* ------------------------------------------------------------- ScopedTimer
\* ScopedTimer(clock, tag): the constructor calls tic
ScopeEnter(c, tag) ==
    /\ Len(scopes[c]) < MaxDepth
    /\ \E t \in now..MaxTime : TicBody(c, tag, t)
    /\ scopes' = [scopes EXCEPT ![c] = Append(@, tag)]
    /\ UNCHANGED cvars

\* ~ScopedTimer() of the innermost live object of context c: calls toc
ScopeExit(c) ==
    /\ scopes[c] # <<>>
    /\ \E t \in now..MaxTime : TocBody(c, scopes[c][Len(scopes[c])], t)
    /\ scopes' = [scopes EXCEPT ![c] = SubSeq(@, 1, Len(@) - 1)]
    /\ UNCHANGED cvars

\* a caller that times with ScopedTimer objects only, opened and closed in stack
\* order, and aggregates
ScopeNext ==
    \/ \E c \in SeqContexts, tag \in Tags : ScopeEnter(c, tag)
    \/ \E c \in SeqContexts : ScopeExit(c)
    \/ \E c \in SeqContexts : Aggregate(c)

ScopeSpec == Init /\ [][ScopeNext]_vars

\* ------------------------------------ the calls, statement by statement
\* Context c starts a call: it is in none, and has calls left
StartCall(c, op) ==
    /\ pc[c] = "idle"
    /\ ncalls[c] < MaxCalls
    /\ ncalls' = [ncalls EXCEPT ![c] = @ + 1]
    /\ wasReset' = (wasReset \/ op = "reset")
    /\ quiet' = IF op = "aggregate" /\ \A d \in Contexts \ {c} : pc[d] = "idle"
                THEN "running" ELSE "no"

\* tic: the key is built and the critical section entered
TicCall(c, tag) ==
    /\ StartCall(c, "tic")
    /\ lock = None
    /\ lock' = c
    /\ pc' = [pc EXCEPT ![c] = "tic_write"]
    /\ arg' = [arg EXCEPT ![c] = tag]
    /\ UNCHANGED <<tics, tags, durations, data, verbose, now, warnings, scopes,
                   address, uniq, idx, last, hist, folds, seen>>

\* tic: tics[key] = hr_clock::now(), and the critical section is left
TicWrite(c) ==
    /\ pc[c] = "tic_write"
    /\ \E t \in now..MaxTime :
          /\ now' = t
          /\ tics' = TicStore(tics, <<arg[c], c>>, t)
    /\ lock' = None
    /\ pc' = [pc EXCEPT ![c] = "idle"]
    /\ UNCHANGED <<tags, durations, data, verbose, warnings, scopes,
                   arg, address, uniq, idx, last, hist, folds, seen, ncalls, wasReset, quiet>>

\* Another context is inside the critical section at a statement that rebuilds the
\* map's tree (the insertion of tic, the erase of toc) while c searches the map
\* outside of any critical section: a data race.
FindRaces(c) == \E d \in Contexts \ {c} : pc[d] \in {"tic_write", "toc_erase"}

\* What tics.find(key) may return to context c (TRUE: the key's node).  An absent key
\* is never found; a present key is found, but a search racing with a rebuild of the
\* tree may also run past its node and return end().
FindResults(c, key) ==
    IF key \notin DOMAIN tics THEN {FALSE}
    ELSE IF FindRaces(c) THEN {TRUE, FALSE} ELSE {TRUE}

\* toc: the lookup returned end(): warn and return
TocFindMiss(c, tag) ==
    /\ StartCall(c, "toc")
    /\ FALSE \in FindResults(c, <<tag, c>>)
    /\ verbose => Len(warnings) < MaxWarnings
    /\ warnings' = IF verbose THEN Append(warnings, NotStartedMsg(tag)) ELSE warnings
    /\ UNCHANGED <<tics, tags, durations, data, verbose, now, scopes,
                   pc, arg, address, lock, uniq, idx, last, hist, folds, seen>>

\* toc: the lookup returned the key's node, whose address is kept
TocFindHit(c, tag) ==
    /\ StartCall(c, "toc")
    /\ TRUE \in FindResults(c, <<tag, c>>)
    /\ address' = [address EXCEPT ![c] = "node"]
    /\ seen' = [seen EXCEPT ![c] = tics[<<tag, c>>]]
    /\ arg' = [arg EXCEPT ![c] = tag]
    /\ pc' = [pc EXCEPT ![c] = "toc_push_dur"]
    /\ UNCHANGED <<tics, tags, durations, data, verbose, now, warnings, scopes,
                   lock, uniq, idx, last, hist, folds>>

\* What *address may read as: the key's start time while its node is in the map; once
\* the node has been freed (by a reset) the read is of freed memory, any earlier reading.
StartRead(c) ==
    IF <<arg[c], c>> \in DOMAIN tics THEN {tics[<<arg[c], c>>]} ELSE 0..now

\* toc: the critical section is entered and the duration pushed
TocPushDur(c) ==
    /\ pc[c] = "toc_push_dur"
    /\ lock = None
    /\ Len(hist) < MaxSamples
    /\ \E t \in now..MaxTime, start \in StartRead(c) :
          /\ now' = t
          /\ durations' = Append(durations, Elapsed(start, t))
          /\ hist' = Append(hist, <<arg[c], Elapsed(start, t)>>)
    /\ lock' = c
    /\ pc' = [pc EXCEPT ![c] = "toc_erase"]
    /\ UNCHANGED <<tics, tags, data, verbose, warnings, scopes,
                   arg, address, uniq, idx, last, folds, seen, ncalls, wasReset, quiet>>

\* a bug of toc: the erase removes the tag's entries of every context
TocEraseAllContexts(c) ==
    /\ pc[c] = "toc_erase"
    /\ tics' = [k \in {x \in DOMAIN tics : x[1] # arg[c]} |-> tics[k]]
    /\ pc' = [pc EXCEPT ![c] = "toc_push_tag"]
    /\ UNCHANGED <<tags, durations, data, verbose, now, warnings, scopes,
                   arg, address, lock, uniq, idx, last, hist, folds, seen, ncalls, wasReset, quiet>>

\* toc: tics.erase(key)
TocErase(c) ==
    /\ pc[c] = "toc_erase"
    /\ tics' = MapErase(tics, <<arg[c], c>>)
    /\ pc' = [pc EXCEPT ![c] = "toc_push_tag"]
    /\ UNCHANGED <<tags, durations, data, verbose, now, warnings, scopes,
                   arg, address, lock, uniq, idx, last, hist, folds, seen, ncalls, wasReset, quiet>>

\* toc: the tag is pushed and the critical section left
TocPushTag(c) ==
    /\ pc[c] = "toc_push_tag"
    /\ tags' = Append(tags, arg[c])
    /\ lock' = None
    /\ address' = [address EXCEPT ![c] = "null"]
    /\ seen' = [seen EXCEPT ![c] = 0]
    /\ pc' = [pc EXCEPT ![c] = "idle"]
    /\ UNCHANGED <<tics, durations, data, verbose, now, warnings, scopes,
                   arg, uniq, idx, last, hist, folds, ncalls, wasReset, quiet>>

AggregatePcs == {"agg_copy", "agg_fold", "agg_clear_tags", "agg_clear_durs"}

\* aggregate: the loop over tics that warns; no two aggregate() calls run at once
AggCall(c) ==
    /\ StartCall(c, "aggregate")
    /\ \A d \in Contexts \ {c} : pc[d] \notin AggregatePcs
    /\ verbose => Len(warnings) + Cardinality(DOMAIN tics) <= MaxWarnings
    /\ warnings' = IF verbose THEN warnings \o NotStoppedMsgs(tics) ELSE warnings
    /\ pc' = [pc EXCEPT ![c] = "agg_copy"]
    /\ UNCHANGED <<tics, tags, durations, data, verbose, now, scopes,
                   arg, address, lock, uniq, idx, last, hist, folds, seen>>

\* aggregate: unique_tags is made from a copy of tags
AggCopy(c) ==
    /\ pc[c] = "agg_copy"
    /\ uniq' = [uniq EXCEPT ![c] = UniqueTags(tags)]
    /\ idx' = [idx EXCEPT ![c] = 1]
    /\ pc' = [pc EXCEPT ![c] = IF UniqueTags(tags) = <<>> THEN "agg_clear_tags"
                                                          ELSE "agg_fold"]
    /\ UNCHANGED <<tics, tags, durations, data, verbose, now, warnings, scopes,
                   arg, address, lock, last, hist, folds, seen, ncalls, wasReset, quiet>>

\* durs, with every index of tgs that durs lacks reading as junk (a read past the end)
Padded(durs, tgs, junk) ==
    [j \in 1..(IF Len(tgs) > Len(durs) THEN Len(tgs) ELSE Len(durs)) |->
        IF j <= Len(durs) THEN durs[j] ELSE junk]

\* aggregate: one round of the loop over unique_tags, on the vectors as they are now
AggFold(c) ==
    LET tag == uniq[c][idx[c]] IN
    /\ pc[c] = "agg_fold"
    /\ \E junk \in (IF Len(tags) > Len(durations) THEN 0..MaxTime ELSE {0}) :
          data' = MapPut(data, tag, FoldTag(data, tag, tags, Padded(durations, tags, junk)))
    /\ folds' = [folds EXCEPT ![tag] = @ + 1]
    /\ idx' = [idx EXCEPT ![c] = @ + 1]
    /\ pc' = [pc EXCEPT ![c] = IF idx[c] = Len(uniq[c]) THEN "agg_clear_tags"
                                                        ELSE "agg_fold"]
    /\ UNCHANGED <<tics, tags, durations, verbose, now, warnings, scopes,
                   arg, address, lock, uniq, last, hist, seen, ncalls, wasReset, quiet>>

\* aggregate: tags.clear()
AggClearTags(c) ==
    /\ pc[c] = "agg_clear_tags"
    /\ tags' = <<>>
    /\ pc' = [pc EXCEPT ![c] = "agg_clear_durs"]
    /\ UNCHANGED <<tics, durations, data, verbose, now, warnings, scopes,
                   arg, address, lock, uniq, idx, last, hist, folds, seen, ncalls, wasReset, quiet>>

\* aggregate: durations.clear(), and the call returns
AggClearDurs(c) ==
    /\ pc[c] = "agg_clear_durs"
    /\ durations' = <<>>
    /\ uniq' = [uniq EXCEPT ![c] = <<>>]
    /\ idx' = [idx EXCEPT ![c] = 1]
    /\ pc' = [pc EXCEPT ![c] = "idle"]
    /\ quiet' = IF quiet = "running" THEN "yes" ELSE "no"
    /\ UNCHANGED <<tics, tags, data, verbose, now, warnings, scopes,
                   arg, address, lock, last, hist, folds, seen, ncalls, wasReset>>

\* reset: tics.clear()
ResetCall(c) ==
    /\ StartCall(c, "reset")
    /\ tics' = EmptyMap
    /\ hist' = <<>>
    /\ folds' = [t \in Tags |-> 0]
    /\ pc' = [pc EXCEPT ![c] = "reset_durs"]
    /\ UNCHANGED <<tags, durations, data, verbose, now, warnings, scopes,
                   arg, address, lock, uniq, idx, last, seen>>

\* reset: durations.clear()
ResetDurs(c) ==
    /\ pc[c] = "reset_durs"
    /\ durations' = <<>>
    /\ pc' = [pc EXCEPT ![c] = "reset_tags"]
    /\ UNCHANGED <<tics, tags, data, verbose, now, warnings, scopes,
                   arg, address, lock, uniq, idx, last, hist, folds, seen, ncalls, wasReset, quiet>>

\* reset: tags.clear()
ResetTags(c) ==
    /\ pc[c] = "reset_tags"
    /\ tags' = <<>>
    /\ pc' = [pc EXCEPT ![c] = "reset_data"]
    /\ UNCHANGED <<tics, durations, data, verbose, now, warnings, scopes,
                   arg, address, lock, uniq, idx, last, hist, folds, seen, ncalls, wasReset, quiet>>

\* reset: data.clear(), and the call returns
ResetData(c) ==
    /\ pc[c] = "reset_data"
    /\ data' = EmptyMap
    /\ pc' = [pc EXCEPT ![c] = "idle"]
    /\ UNCHANGED <<tics, tags, durations, verbose, now, warnings, scopes,
                   arg, address, lock, uniq, idx, last, hist, folds, seen, ncalls, wasReset, quiet>>

Next ==
    \/ \E c \in Contexts, tag \in Tags : TicCall(c, tag)
    \/ \E c \in Contexts : TicWrite(c)
    \/ \E c \in Contexts, tag \in Tags : TocFindMiss(c, tag)
    \/ \E c \in Contexts, tag \in Tags : TocFindHit(c, tag)
    \/ \E c \in Contexts : TocPushDur(c)
    \/ \E c \in Contexts : TocErase(c)
    \/ \E c \in Contexts : TocPushTag(c)
    \/ \E c \in Contexts : AggCall(c)
    \/ \E c \in Contexts : AggCopy(c)
    \/ \E c \in Contexts : AggFold(c)
    \/ \E c \in Contexts : AggClearTags(c)
    \/ \E c \in Contexts : AggClearDurs(c)
    \/ \E c \in Contexts : ResetCall(c)
    \/ \E c \in Contexts : ResetDurs(c)
    \/ \E c \in Contexts : ResetTags(c)
    \/ \E c \in Contexts : ResetData(c)

Spec == Init /\ [][Next]_vars

\* ------------------------------------------- contexts that only tic and toc
\* every context calls tic and toc, on any tags, statement by statement
IsoNext ==
    \/ \E c \in Contexts, tag \in Tags : TicCall(c, tag)
    \/ \E c \in Contexts : TicWrite(c)
    \/ \E c \in Contexts, tag \in Tags : TocFindMiss(c, tag)
    \/ \E c \in Contexts, tag \in Tags : TocFindHit(c, tag)
    \/ \E c \in Contexts : TocPushDur(c)
    \/ \E c \in Contexts : TocErase(c)
    \/ \E c \in Contexts : TocPushTag(c)

IsoSpec == Init /\ [][IsoNext]_vars

\* ---------------------------------------------------- the "job" scenario
Job == "a"

\* every context calls tic(Job), then toc(Job); when all have returned, one of them
\* calls aggregate()
JobTic(c) == ncalls[c] = 0 /\ TicCall(c, Job)
JobTocMiss(c) == ncalls[c] = 1 /\ TocFindMiss(c, Job)
JobTocHit(c) == ncalls[c] = 1 /\ TocFindHit(c, Job)
JobAggregate(c) ==
    /\ \A d \in Contexts : ncalls[d] = 2 /\ pc[d] = "idle"
    /\ AggCall(c)

JobNext ==
    \/ \E c \in Contexts : JobTic(c)
    \/ \E c \in Contexts : TicWrite(c)
    \/ \E c \in Contexts : JobTocMiss(c)
    \/ \E c \in Contexts : JobTocHit(c)
    \/ \E c \in Contexts : TocPushDur(c)
    \/ \E c \in Contexts : TocErase(c)
    \/ \E c \in Contexts : TocPushTag(c)
    \/ \E c \in Contexts : JobAggregate(c)
    \/ \E c \in Contexts : AggCopy(c)
    \/ \E c \in Contexts : AggFold(c)
    \/ \E c \in Contexts : AggClearTags(c)
    \/ \E c \in Contexts : AggClearDurs(c)

JobSpec == Init /\ [][JobNext]_vars


\* ------------------------------------------------ claims checked on SeqSpec
Count(d, tag) == IF tag \in DOMAIN d THEN d[tag][3] ELSE 0

HistTags == [i \in DOMAIN hist |-> hist[i][1]]
HistDurs == [i \in DOMAIN hist |-> hist[i][2]]

\* the step just taken is the call toc(tag) of context c
IsToc(c, tag) == last'.op = "toc" /\ last'.ctx = c /\ last'.tag = tag
\* the step just taken is the call tic(tag) of context c
IsTic(c, tag) == last'.op = "tic" /\ last'.ctx = c /\ last'.tag = tag
IsAggregate == last'.op = "aggregate"
IsReset == last'.op = "reset"

\* C4: a toc(T) of context c whose key (T, c) is not in the tracker leaves the
\* tracker, both log vectors and the Statistic table unchanged, and hands exactly one
\* not-started message naming T to warn() when verbose is true (none otherwise).
C4_TocNotStartedIsNoOp ==
    [][\A c \in Contexts, T \in Tags :
         (IsToc(c, T) /\ <<T, c>> \notin DOMAIN tics)
         => /\ tics' = tics
            /\ tags' = tags
            /\ durations' = durations
            /\ data' = data
            /\ warnings' = IF verbose THEN Append(warnings, NotStartedMsg(T))
                                      ELSE warnings]_vars

\* a toc missed its key while the log and the table were nonempty, and was reported
C4_Witness ==
    /\ last.op = "toc" /\ ~last.found
    /\ verbose /\ warnings = <<NotStartedMsg(last.tag)>>
    /\ tags # <<>> /\ data # EmptyMap

\* the effect C5 claims of an aggregate() step on the counts, for tag T
CountsOneMore(T) ==
    /\ T \in DOMAIN data'
    /\ Count(data', T) = Count(data, T) + 1
    /\ \A U \in Tags \ {T} : Count(data', U) = Count(data, U)

\* C5 as claimed: a tic(T) directly followed by a toc(T) of the same context and then
\* aggregate() raises the count of T by exactly 1 and changes no other count.
C5_AsClaimed ==
    [][(AfterFoundToc /\ IsAggregate) => CountsOneMore(last.tag)]_vars

\* C5 as amended: the same, when the log held no other sample than that of this toc
\* (the log was empty at the tic).
C5_TicTocAggregateCountsOne ==
    [][(AfterFoundToc /\ IsAggregate /\ Len(tags) = 1) => CountsOneMore(last.tag)]_vars

\* tic, toc, aggregate on a tag that had an entry, with nothing else in the log
C5_Witness ==
    /\ last.run = "TKA" /\ Len(last.batch) = 1
    /\ Count(data, last.tag) >= 2

\* C6: folding the samples in several aggregate() calls gives, for every tag, the
\* (mean, M2, count) that one aggregate() call over all samples since the last reset
\* gives; in every state, also with the samples still in the log folded on top.
C6_MergeCorrect ==
    AggregateData(data, tags, durations) = AggregateData(EmptyMap, HistTags, HistDurs)

\* some tag was folded by two aggregate() calls, from samples that differ
C6_Witness ==
    /\ tags = <<>>
    /\ \E T \in DOMAIN data : folds[T] >= 2 /\ data[T][2] # RInt(0)

\* C7: aggregate() leaves every entry of a tag without a sample in the log as it is
\* and creates no entry for such a tag; with an empty log the table is unchanged.
C7_AggregateFrame ==
    [][IsAggregate =>
         /\ \A T \in Tags \ Range(tags) :
               /\ (T \in DOMAIN data') = (T \in DOMAIN data)
               /\ T \in DOMAIN data => data'[T] = data[T]
         /\ tags = <<>> => data' = data]_vars

\* an aggregate() folded a nonempty log while the table held a tag not in that log
C7_Witness ==
    /\ last.op = "aggregate" /\ last.batch # <<>>
    /\ \E T \in DOMAIN data : T \notin Range(last.batch)

\* C8: reset() leaves the table, the tracker and the log empty; an aggregate() right
\* after it emits no message and leaves the table empty.
C8_ResetClearsAll ==
    [][/\ IsReset => /\ data' = EmptyMap
                     /\ tics' = EmptyMap
                     /\ tags' = <<>>
                     /\ durations' = <<>>
       /\ (last.op = "reset" /\ IsAggregate) => /\ warnings' = warnings
                                                /\ data' = EmptyMap]_vars

\* reset() ran with tracker, log and table all nonempty, then aggregate() ran
C8_Witness == last.run = "RA" /\ last.full /\ verbose

\* C10: a tic(T) on a key that is still open leaves one entry for the key, holding
\* the reading of this second tic; the toc(T) after two tics appends one log entry,
\* measured from the second tic, and removes the key; a further toc(T) changes
\* nothing and is reported as not started.  (Right after a tic, `now` is the reading
\* that tic stored.)
C10_LastStartWins ==
    [][\A c \in Contexts, T \in Tags :
         LET key == <<T, c>> IN
         /\ (IsTic(c, T) /\ key \in DOMAIN tics)
            => /\ DOMAIN tics' = DOMAIN tics
               /\ tics'[key] = now'
               /\ \A k \in DOMAIN tics \ {key} : tics'[k] = tics[k]
         /\ (IsToc(c, T) /\ SameKey(c, T) /\ last.run = "TT")
            => /\ tags' = Append(tags, T)
               /\ durations' = Append(durations, Elapsed(now, now'))
               /\ tics' = MapErase(tics, key)
         /\ (IsToc(c, T) /\ SameKey(c, T) /\ last.run = "TTK")
            => /\ ~last'.found
               /\ UNCHANGED <<tics, tags, durations, data>>
               /\ warnings' = IF verbose THEN Append(warnings, NotStartedMsg(T))
                                         ELSE warnings]_vars

\* tic, tic, toc, toc on one key: the second toc was not started
C10_Witness == last.run = "TTKK" /\ ~last.found /\ tags # <<>>

\* --------------------------------- claims checked on Spec, JobSpec, ScopeSpec
\* (C1, C2, C3, C9)
RECURSIVE SumCountsFrom(_, _)
SumCountsFrom(d, i) ==
    IF i > Len(TagOrder) THEN 0 ELSE Count(d, TagOrder[i]) + SumCountsFrom(d, i + 1)

\* the sum over all tags of the Statistic counts
SumCounts(d) == SumCountsFrom(d, 1)

\* C1: (no reset having run) once every call has returned and one further aggregate()
\* has run on its own, the counts of the table add up to the number of toc calls that
\* found their key: no sample is lost or counted twice, whatever ran beside an
\* earlier aggregate().
C1_NoSampleLost ==
    (quiet = "yes" /\ ~wasReset) => SumCounts(data) = Len(hist)

\* C2: from the lookup of a toc that found its key to its erase, the key's entry stays
\* in the tracker with the start time found; the duration pushed is measured from that
\* start time, and the erase removes that entry.
C2_TocEntryStable ==
    [][\A c \in Contexts :
         LET key == <<arg[c], c>> IN
         /\ pc'[c] \in {"toc_push_dur", "toc_erase"}
            => <<arg'[c], c>> \in DOMAIN tics' /\ tics'[<<arg'[c], c>>] = seen'[c]
         /\ (pc[c] = "toc_push_dur" /\ pc'[c] = "toc_erase")
            => durations' = Append(durations, Elapsed(seen[c], now'))
         /\ (pc[c] = "toc_erase" /\ pc'[c] = "toc_push_tag")
            => key \in DOMAIN tics /\ tics' = MapErase(tics, key)]_vars

\* C3: when every context has called tic(Job) and toc(Job) once and aggregate() has
\* then run, the count of Job is the number of contexts and no message was emitted.
C3_JobCountIsN ==
    (quiet = "yes" /\ \A c \in Contexts : pc[c] = "idle" /\ ncalls[c] >= 2)
    => /\ Count(data, Job) = Cardinality(Contexts)
       /\ warnings = <<>>

\* C9: the destructor of every ScopedTimer appends exactly one log entry with the
\* scope's tag and leaves no open interval for (tag, context) behind.
C9_ScopeClosesOnce ==
    [][\A c \in Contexts :
         Len(scopes'[c]) < Len(scopes[c])
         => LET T == scopes[c][Len(scopes[c])] IN
            /\ tags' = Append(tags, T)
            /\ Len(durations') = Len(durations) + 1
            /\ <<T, c>> \notin DOMAIN tics']_vars

\* ------------------------------------------- further claims on SeqSpec
\* the number of entries of the tag vector tgs that are T
NumTagged(tgs, T) == Cardinality({i \in DOMAIN tgs : tgs[i] = T})

\* C11: aggregate() ends with both log vectors empty and the tracker as it was (every
\* open interval still open, with the same start time); the samples of the log are
\* folded whether or not intervals are open; with verbose true every open interval is
\* reported by this aggregate(), and so by every later one while it stays open.
C11_AggregateKeepsTracker ==
    [][IsAggregate =>
         /\ tics' = tics
         /\ tags' = <<>>
         /\ durations' = <<>>
         /\ \A T \in Tags : Count(data', T) = Count(data, T) + NumTagged(tags, T)
         /\ verbose => /\ Len(warnings') = Len(warnings) + Cardinality(DOMAIN tics)
                       /\ \A k \in DOMAIN tics :
                             \E i \in (Len(warnings) + 1)..Len(warnings') :
                                warnings'[i] = NotStoppedMsg(k[1])]_vars

\* two aggregate() calls have reported the interval that is still open, and the last
\* one folded a nonempty log
C11_Witness ==
    /\ last.op = "aggregate" /\ last.batch # <<>>
    /\ \E k \in DOMAIN tics : warnings = <<NotStoppedMsg(k[1]), NotStoppedMsg(k[1])>>

\* C12: with verbose false no call emits a message.  With verbose true a toc on an
\* absent key emits exactly one not-started message, an aggregate() one not-stopped
\* message per tracker entry, in map order, and no other call emits any.  What a call
\* does to the tracker, the log and the table is a function of the call, the clock
\* reading and the tracker, log and table before it: verbose is not read, so the same
\* calls give the same tracker, log and table for both settings.
C12_DiagnosticsGated ==
    [][/\ ~verbose => warnings' = <<>>
       /\ \A c \in Contexts, T \in Tags :
             LET key == <<T, c>> IN
             /\ IsTic(c, T)
                => /\ warnings' = warnings
                   /\ tics' = MapPut(tics, key, now')
                   /\ UNCHANGED <<tags, durations, data>>
             /\ (IsToc(c, T) /\ key \notin DOMAIN tics)
                => /\ verbose => warnings' = Append(warnings, NotStartedMsg(T))
                   /\ UNCHANGED <<tics, tags, durations, data>>
             /\ (IsToc(c, T) /\ key \in DOMAIN tics)
                => /\ warnings' = warnings
                   /\ tics' = MapErase(tics, key)
                   /\ tags' = Append(tags, T)
                   /\ durations' = Append(durations, Elapsed(tics[key], now'))
                   /\ data' = data
       /\ IsAggregate
          => /\ verbose => warnings' = warnings \o NotStoppedMsgs(tics)
             /\ tics' = tics /\ tags' = <<>> /\ durations' = <<>>
             /\ data' = AggregateData(data, tags, durations)
       /\ IsReset
          => /\ warnings' = warnings
             /\ tics' = EmptyMap /\ tags' = <<>> /\ durations' = <<>>
             /\ data' = EmptyMap]_vars

\* with verbose true, a toc on an absent key was reported, and then an aggregate()
\* that folded a sample reported the one interval that was open
C12_Witness ==
    /\ verbose /\ last.op = "aggregate" /\ last.batch # <<>>
    /\ \E T \in Tags, k \in DOMAIN tics :
          /\ DOMAIN tics = {k}
          /\ warnings = <<NotStartedMsg(T), NotStoppedMsg(k[1])>>

\* C18: in every state of sequential use, for each tag the Statistic count (0 without
\* an entry) plus the number of the tag's entries in the log is the number of toc
\* calls on the tag that found their key since the last reset; every entry of the
\* table has a count of at least 1.
C18_SamplesConserved ==
    /\ \A T \in Tags :
          Count(data, T) + NumTagged(tags, T) = NumTagged(HistTags, T)
    /\ \A T \in DOMAIN data : data[T][3] >= 1

\* a toc has just logged a sample of a tag that the table holds a folded sample of
C18_Witness ==
    /\ last.op = "toc" /\ last.found
    /\ Count(data, last.tag) = 1 /\ NumTagged(tags, last.tag) = 1

\* ------------------------------------------------ claims checked on IsoSpec
\* the step is one of context c: it starts a call or moves on in one
StepOf(c) == pc'[c] # pc[c] \/ ncalls'[c] # ncalls[c]

\* the step is the lookup of a toc of context c (tic is the other call of IsoSpec)
TocLookup(c) == ncalls'[c] # ncalls[c] /\ pc'[c] # "tic_write"

\* C13: no step of a tic or toc of context c adds, changes or removes the tracker
\* entry of another context, whatever the tag; a toc(T) finds a key only if (T, c)
\* itself is in the tracker, and otherwise changes nothing and is reported as not
\* started, whether or not another context has T open.
C13_ContextsIsolated ==
    [][\A c \in Contexts :
         /\ StepOf(c)
            => \A d \in Contexts \ {c}, T \in Tags :
                  /\ (<<T, d>> \in DOMAIN tics') = (<<T, d>> \in DOMAIN tics)
                  /\ <<T, d>> \in DOMAIN tics => tics'[<<T, d>>] = tics[<<T, d>>]
         /\ (TocLookup(c) /\ pc'[c] = "toc_push_dur")
            => <<arg'[c], c>> \in DOMAIN tics
         /\ (TocLookup(c) /\ pc'[c] = "idle")
            => /\ UNCHANGED <<tics, tags, durations, data>>
               /\ verbose => \E T \in Tags : warnings' = Append(warnings, NotStartedMsg(T))]_vars

\* two contexts hold the same tag open as two entries with different start times,
\* after a toc of that tag was reported as not started
C13_Witness ==
    \E T \in Tags :
       /\ {<<T, 0>>, <<T, 1>>} \subseteq DOMAIN tics
       /\ tics[<<T, 0>>] # tics[<<T, 1>>]
       /\ verbose /\ warnings = <<NotStartedMsg(T)>>
       /\ tags # <<>>

\* context c takes the step that pushes its toc's duration
TocPushes(c) == pc[c] = "toc_push_dur" /\ pc'[c] = "toc_erase"

\* C17: the clock never stepping back, the start time a toc reads is not later than
\* its own reading of the clock, and the value it pushes is the count of whole
\* microseconds of the difference: never negative, so that its conversion to unsigned
\* long long changes nothing; every entry of durations is >= 0.
C17_DurationNonNegative ==
    [][\A c \in Contexts :
         TocPushes(c)
         => LET start == tics[<<arg[c], c>>]
                d == durations'[Len(durations')]
            IN  /\ now <= now'
                /\ start <= now'
                /\ Len(durations') = Len(durations) + 1
                /\ d >= 0
                /\ d * TicksPerMicro <= now' - start
                /\ now' - start < (d + 1) * TicksPerMicro
                /\ \A j \in DOMAIN durations' : durations'[j] >= 0]_vars

\* a toc has just pushed a duration of one microsecond while the other context holds
\* an interval open
C17_Witness ==
    \E c \in Contexts :
       /\ pc[c] = "toc_erase"
       /\ durations # <<>> /\ durations[Len(durations)] = 1
       /\ \E k \in DOMAIN tics : k[2] # c

\* ------------------------------------------------ the reference statistic
\* the samples of tag T folded so far: those of hist that are no longer in the log,
\* in the order they were taken
FoldedOf(T) ==
    LET done == SubSeq(hist, 1, Len(hist) - Len(tags))
        mine == SelectSeq(done, LAMBDA e : e[1] = T)
    IN  [i \in DOMAIN mine |-> mine[i][2]]

RECURSIVE SeqSum(_, _)
SeqSum(xs, i) == IF i > Len(xs) THEN 0 ELSE xs[i] + SeqSum(xs, i + 1)

\* the arithmetic mean of the nonempty sequence xs
RefMean(xs) == Frac(SeqSum(xs, 1), Len(xs))

RECURSIVE SqDevSum(_, _, _)
SqDevSum(xs, mean, i) ==
    IF i > Len(xs) THEN RInt(0)
    ELSE LET dev == RSub(RInt(xs[i]), mean)
         IN  RAdd(RMul(dev, dev), SqDevSum(xs, mean, i + 1))

\* the sum of the squared deviations of xs from its mean
RefM2(xs) == SqDevSum(xs, RefMean(xs), 1)

\* C14: in every state the Statistic of a tag is the reference statistic of the
\* samples folded for the tag so far: their arithmetic mean, the sum of their squared
\* deviations from it, and their number; a tag with no folded sample has count 0.
C14_StatIsReference ==
    \A T \in Tags :
       LET xs == FoldedOf(T) IN
       IF xs = <<>> THEN Count(data, T) = 0
       ELSE /\ T \in DOMAIN data
            /\ data[T] = <<RefMean(xs), RefM2(xs), Len(xs)>>

\* the table holds a tag folded from two different samples, in two aggregate() calls:
\* mean 1/2 and M2 1/2 from the samples 0 and 1
C14_Witness ==
    \E T \in DOMAIN data :
       /\ data[T] = <<(<<1, 2>>), (<<1, 2>>), 2>>
       /\ folds[T] = 2 /\ tags = <<>>

\* ------------------------------------------------ claims checked on JobSpec
\* C15: a key is in the tracker exactly while its context has called tic on it and
\* has not called toc on it since.  In the job scenario: not before the context's tic,
\* from the return of its tic to its toc, and not after its toc has returned.
C15_TrackerInvariant ==
    \A c \in Contexts :
       /\ ncalls[c] = 0 => <<Job, c>> \notin DOMAIN tics
       /\ (ncalls[c] = 1 /\ pc[c] = "idle") => <<Job, c>> \in DOMAIN tics
       /\ (ncalls[c] = 2 /\ pc[c] = "idle") => <<Job, c>> \notin DOMAIN tics

\* --------------------------------------------------- claims checked on Spec
\* context c is at a statement that writes the tracker: the insertion of tic, the
\* erase of toc
TrackerWrite(c) == pc[c] \in {"tic_write", "toc_erase"}

\* context c is at a statement that writes a log vector: the push of toc (inside its
\* critical section), the clears of aggregate, the clears of reset
LogWrite(c) ==
    pc[c] \in {"toc_push_tag", "agg_clear_tags", "agg_clear_durs", "reset_durs", "reset_tags"}

ResetPcs == {"reset_durs", "reset_tags", "reset_data"}

\* C16: no two contexts are at the same time at writes of the tracker, and no two at
\* writes of the log vectors (two reset() calls running at once are left aside).
C16_WritesExclusive ==
    \A c \in Contexts : \A d \in Contexts \ {c} :
       /\ ~(TrackerWrite(c) /\ TrackerWrite(d))
       /\ (LogWrite(c) /\ LogWrite(d)) => (pc[c] \in ResetPcs /\ pc[d] \in ResetPcs)

\* C19: (no reset having run) whenever no call is in progress the vectors tags and
\* durations have the same length, and whenever an aggregate() is about to fold a
\* tag it finds them with the same length.
C19_LogsAligned ==
    ~wasReset
    => /\ (\A c \in Contexts : pc[c] = "idle") => Len(tags) = Len(durations)
       /\ \A c \in Contexts : pc[c] = "agg_fold" => Len(tags) = Len(durations)

====
